---- MODULE Spec2Model ----
(***************************************************************************)
(* Voice embedding service (voice-embed/main.py): a FastAPI application    *)
(* with one module-level model handle, a startup hook that loads it, and   *)
(* three handlers: GET /health, POST /embed, POST /embed-raw.              *)
(*                                                                         *)
(* The handlers are coroutines on one event loop, so a handler runs        *)
(* without interruption between two awaits.  /health and /embed-raw have   *)
(* no await; /embed has one (await file.read()), which splits it into the  *)
(* two actions CreateEmbeddingBegin and CreateEmbeddingResume.             *)
(*                                                                         *)
(* Audio is abstracted to what the handlers look at: the byte count, if    *)
(* the container decodes, channels, sample rate and frame count, and a     *)
(* content name that stands for the sample values (the opaque network is   *)
(* a function of it).  Raw and normalized embeddings are fixed-point       *)
(* numbers (see the arithmetic section).                                   *)
(***************************************************************************)
EXTENDS Integers, Sequences, FiniteSets, Bags, TLC

VARIABLES
    model,      \* the module-level handle: None or the loaded checkpoint
    startup,    \* the startup hook: "pending", "complete" or "failed"
    reading,    \* bag of /embed requests suspended at await file.read()
    done,       \* the request most recently answered, with its response
    raw,        \* numeric specification: a raw vector from the network
    normalized  \* numeric specification: its normalization, once computed

vars == <<model, startup, reading, done, raw, normalized>>

\* The largest number of /embed requests suspended at the await at once.
MaxInFlight == 2

None == "None"

----------------------------------------------------------------------------
(* Fixed-point arithmetic.  A raw vector component is an integer count of  *)
(* 1e-8 (so the epsilon of the normalization is 1); a normalized component *)
(* is an integer count of 2^-24, the resolution of a float32 mantissa.     *)
(* Squares exceed 31 bits, so a square is kept as hi * 2^30 + lo.          *)

B30 == 2^30
H15 == 2^15
ONE == 2^24

Abs(x) == IF x < 0 THEN -x ELSE x

\* x * x for 0 <= x < 2^30, as [hi, lo] with value hi * 2^30 + lo.
Sq(x) ==
    LET a == x \div H15
        b == x % H15
        mid == 2 * a * b
        lo0 == (mid % H15) * H15 + b * b
    IN  [hi |-> a * a + (mid \div H15) + (lo0 \div B30), lo |-> lo0 % B30]

BigAdd(p, q) ==
    LET lo0 == p.lo + q.lo
    IN  [hi |-> p.hi + q.hi + (lo0 \div B30), lo |-> lo0 % B30]

BigLess(p, q) == p.hi < q.hi \/ (p.hi = q.hi /\ p.lo < q.lo)

BigLeq(p, q) == ~BigLess(q, p)

RECURSIVE SumSq(_)
SumSq(v) ==
    IF v = <<>> THEN [hi |-> 0, lo |-> 0]
    ELSE BigAdd(Sq(Abs(Head(v))), SumSq(Tail(v)))

\* The largest r in lo..hi with r * r <= s.
RECURSIVE IsqrtBetween(_, _, _)
IsqrtBetween(lo, hi, s) ==
    IF lo = hi THEN lo
    ELSE LET mid == (lo + hi + 1) \div 2
         IN  IF BigLeq(Sq(mid), s) THEN IsqrtBetween(mid, hi, s)
             ELSE IsqrtBetween(lo, mid - 1, s)

\* np.linalg.norm: the Euclidean norm, in the unit of the components.
L2Norm(v) == IsqrtBetween(0, B30 - 1, SumSq(v))

\* floor(a * 2^k / d) given q = a \div d and r = a % d, by long division.
RECURSIVE DivBits(_, _, _, _)
DivBits(q, r, d, k) ==
    IF k = 0 THEN q
    ELSE IF 2 * r >= d THEN DivBits(2 * q + 1, 2 * r - d, d, k - 1)
         ELSE DivBits(2 * q, 2 * r, d, k - 1)

\* a / d for d > 0, rounded toward zero, in units of 2^-24.
FixDiv(a, d) ==
    LET m == Abs(a)
        q == DivBits(m \div d, m % d, d, 24)
    IN  IF a < 0 THEN -q ELSE q

EPS == 1

----------------------------------------------------------------------------
(* Inputs.                                                                 *)

TARGET_RATE == 16000

\* int(0.5 * 16000)
min_samples == (5 * TARGET_RATE) \div 10

\* UploadFile.content_type: None, or a string.
NoContentType == [present |-> FALSE, value |-> ""]

ContentType(s) == [present |-> TRUE, value |-> s]

ContentTypes ==
    { NoContentType, ContentType(""), ContentType("audio/wav"),
      ContentType("audio"), ContentType("text/plain"), ContentType("Audio/wav") }

\* A 16-bit PCM WAV file: a 44-byte header and the frames.
Wav(content, channels, sample_rate, frames) ==
    [size |-> 44 + 2 * channels * frames, decodable |-> TRUE,
     channels |-> channels, sample_rate |-> sample_rate, frames |-> frames,
     content |-> content]

NotAudio(content, size) ==
    [size |-> size, decodable |-> FALSE, channels |-> 0, sample_rate |-> 0,
     frames |-> 0, content |-> content]

\* The byte payloads a client sends.
Payloads ==
    { NotAudio("empty", 0),
      NotAudio("junk", 10),
      Wav("header_only", 1, 16000, 0),
      Wav("clip_0.2s", 1, 16000, 3200),
      Wav("clip_7999", 1, 16000, 7999),
      Wav("clip_8000", 1, 16000, 8000),
      Wav("stereo_short", 2, 44100, 22047),
      Wav("silence_1s", 2, 44100, 44100) }

\* The checkpoints EncoderClassifier.from_hparams may hand back.
Checkpoints == {"voxceleb", "degenerate", "scalar"}

\* The raw vectors the checkpoints return, in units of 1e-8.
RawOutputs ==
    { <<300000000, -400000000, 0>>, <<100000000, 200000000, -200000000>>,
      <<0, 0, 0>>, <<70000000>> }

\* model.encode_batch: an opaque deterministic function of the waveform,
\* which returns a raw vector or raises (None has no encode_batch).
encode_batch(m, waveform) ==
    CASE m = None -> [raises |-> TRUE, raw |-> <<>>]
      [] m = "voxceleb" ->
            [raises |-> FALSE,
             raw |-> IF waveform.content = "clip_8000"
                     THEN <<300000000, -400000000, 0>>
                     ELSE <<100000000, 200000000, -200000000>>]
      [] m = "degenerate" ->
            IF waveform.content = "clip_8000"
            THEN [raises |-> TRUE, raw |-> <<>>]
            ELSE [raises |-> FALSE, raw |-> <<0, 0, 0>>]
      [] OTHER -> [raises |-> FALSE, raw |-> <<70000000>>]

----------------------------------------------------------------------------
(* Exceptions and the per-request context of a handler.                    *)

NoExc == [type |-> "none", status |-> 0, detail |-> "", arg |-> -1, cause |-> ""]

\* HTTPException(status_code, detail): arg is the number formatted into the
\* detail (-1: none), cause the text of the exception formatted into it.
HTTPException(status, detail, arg, cause) ==
    [type |-> "HTTPException", status |-> status, detail |-> detail,
     arg |-> arg, cause |-> cause]

\* Any other Exception, named by what raised it.
PyException(what) ==
    [type |-> "Exception", status |-> 0, detail |-> what, arg |-> -1, cause |-> ""]

NoWaveform == [samples |-> -1, content |-> ""]

NoEmbedding == [ndim |-> -1, data |-> <<>>]

NoBody ==
    [embedding |-> <<>>, success |-> FALSE, message |-> "", arg |-> -1,
     dimension |-> -1]

\* The locals of a handler at entry.
Entry(content_type, file) ==
    [content_type |-> content_type, file |-> file, exc |-> NoExc,
     trace |-> <<>>, waveform |-> NoWaveform, embedding |-> NoEmbedding,
     ret |-> NoBody]

Raised(c) == c.exc.type # "none"

Raise(c, e) == [c EXCEPT !.exc = e]

Ran(c, stage) == [c EXCEPT !.trace = Append(@, stage)]

\* Statement sequencing inside a try block: a raise skips what follows.
Then(c, Stage(_)) == IF Raised(c) THEN c ELSE Stage(c)

----------------------------------------------------------------------------
(* preprocess_audio.                                                       *)

\* torchaudio.load(io.BytesIO(audio_bytes)): the decoded waveform with its
\* sample rate, or an exception when the container does not parse.
torchaudio_load(audio_bytes) ==
    [exc |-> IF audio_bytes.decodable THEN NoExc ELSE PyException("torchaudio.load"),
     channels |-> audio_bytes.channels, sample_rate |-> audio_bytes.sample_rate,
     frames |-> audio_bytes.frames, content |-> audio_bytes.content]

\* torch.mean over the channel dimension when there is more than one.
to_mono(w) == IF w.channels > 1 THEN [w EXCEPT !.channels = 1] ELSE w

\* torchaudio.transforms.Resample(sample_rate, 16000): the output has
\* ceil(16000 * frames / sample_rate) frames.
resample(w) ==
    IF w.sample_rate # TARGET_RATE
    THEN [w EXCEPT !.frames = (TARGET_RATE * @ + w.sample_rate - 1) \div w.sample_rate,
                   !.sample_rate = TARGET_RATE]
    ELSE w

\* waveform / (torch.max(torch.abs(waveform)) + 1e-8): torch.max raises on a
\* tensor without elements; the sample values stay behind the content name.
peak_normalize(w) ==
    IF w.frames = 0 THEN [w EXCEPT !.exc = PyException("torch.max")] ELSE w

preprocess_audio(c) ==
    LET loaded == torchaudio_load(c.file)
        body == IF loaded.exc.type # "none" THEN loaded
                ELSE peak_normalize(resample(to_mono(loaded)))
    IN  IF body.exc.type # "none"
        THEN Raise(Ran(c, "preprocess"),
                   HTTPException(400, "Audio preprocessing failed", -1, body.exc.detail))
        ELSE [Ran(c, "preprocess") EXCEPT
                !.waveform = [samples |-> body.frames, content |-> body.content]]

----------------------------------------------------------------------------
(* generate_embedding.                                                     *)

model_check_missing(c, m) == Ran(c, "model_check")

model_check(c, m) ==
    IF m = None
    THEN Raise(Ran(c, "model_check"), HTTPException(500, "Model not loaded", -1, ""))
    ELSE Ran(c, "model_check")

\* embedding.squeeze(): a [1, 1, d] tensor becomes a vector, or a 0-d array
\* when d = 1.
squeeze(v) == [ndim |-> IF Len(v) = 1 THEN 0 ELSE 1, data |-> v]

infer(c, m) ==
    LET out == encode_batch(m, c.waveform)
    IN  IF out.raises THEN Raise(Ran(c, "encode_batch"), PyException("encode_batch"))
        ELSE [Ran(c, "encode_batch") EXCEPT !.embedding = squeeze(out.raw)]

RECURSIVE SumAbs(_)
SumAbs(v) == IF v = <<>> THEN 0 ELSE Abs(Head(v)) + SumAbs(Tail(v))

l2_normalize_l1(v) ==
    LET d == SumAbs(v) + EPS
    IN  [i \in 1..Len(v) |-> FixDiv(v[i], d)]

\* embedding_np / (np.linalg.norm(embedding_np) + 1e-8)
l2_normalize(v) ==
    LET d == L2Norm(v) + EPS
    IN  [i \in 1..Len(v) |-> FixDiv(v[i], d)]

\* l2_normalize on the vectors the checkpoints return, computed once.
NormalizedOutputs == [v \in RawOutputs |-> l2_normalize(v)]

normalize(c) ==
    [Ran(c, "normalize") EXCEPT
        !.embedding.data = IF @ \in RawOutputs THEN NormalizedOutputs[@]
                           ELSE l2_normalize(@)]

\* `except Exception` also catches the HTTPException raised by the model check.
generate_embedding(c, m) ==
    LET body == Then(Then(model_check(c, m), LAMBDA x : infer(x, m)), normalize)
    IN  IF Raised(body)
        THEN Raise(body, HTTPException(500, "Embedding generation failed", -1,
                                       body.exc.detail))
        ELSE body

----------------------------------------------------------------------------
(* The handlers.                                                           *)

startswith(s, prefix) == Len(s) >= Len(prefix) /\ SubSeq(s, 1, Len(prefix)) = prefix

\* f"{n / 16000:.2f}", as hundredths of a second.  An exact tie (n = 80 mod
\* 160) is decided in Python by the double nearest to n / 16000, taken here as
\* half-to-even; no payload of Payloads lands on one.
Fmt2(n) ==
    LET q == (100 * n) \div TARGET_RATE
        r == (100 * n) % TARGET_RATE
    IN  IF 2 * r > TARGET_RATE \/ (2 * r = TARGET_RATE /\ q % 2 = 1) THEN q + 1 ELSE q

validate_file_type_if_present(c) ==
    IF c.content_type.present /\ ~startswith(c.content_type.value, "audio/")
    THEN Raise(Ran(c, "content_type"),
               HTTPException(400, "File must be an audio file (WAV preferred)", -1, ""))
    ELSE Ran(c, "content_type")

validate_file_type(c) ==
    IF ~c.content_type.present \/ c.content_type.value = ""
       \/ ~startswith(c.content_type.value, "audio/")
    THEN Raise(Ran(c, "content_type"),
               HTTPException(400, "File must be an audio file (WAV preferred)", -1, ""))
    ELSE Ran(c, "content_type")

\* audio_bytes = await file.read()
read_file(c) == Ran(c, "read")

check_empty_skipped(c, detail) == Ran(c, "empty")

check_empty(c, detail) ==
    IF c.file.size = 0
    THEN Raise(Ran(c, "empty"), HTTPException(400, detail, -1, ""))
    ELSE Ran(c, "empty")

check_duration(c) ==
    IF c.waveform.samples < min_samples
    THEN Raise(Ran(c, "length"),
               HTTPException(400, "Audio too short. Minimum 0.5 seconds required, got",
                             Fmt2(c.waveform.samples), ""))
    ELSE Ran(c, "length")

check_duration_raw_lenient(c) == Ran(c, "length")

check_duration_raw(c) ==
    IF c.waveform.samples < min_samples
    THEN Raise(Ran(c, "length"),
               HTTPException(400, "Audio too short. Minimum 0.5 seconds required", -1, ""))
    ELSE Ran(c, "length")

\* len(embedding) raises TypeError on a 0-d array.
return_response(c) ==
    IF c.embedding.ndim = 0
    THEN Raise(Ran(c, "return"), PyException("len() of unsized object"))
    ELSE [Ran(c, "return") EXCEPT
            !.ret = [embedding |-> c.embedding.data, success |-> TRUE,
                     message |-> "Successfully generated", arg |-> Len(c.embedding.data),
                     dimension |-> -1]]

return_raw(c) ==
    IF c.embedding.ndim = 0
    THEN Raise(Ran(c, "return"), PyException("len() of unsized object"))
    ELSE [Ran(c, "return") EXCEPT
            !.ret = [embedding |-> c.embedding.data, success |-> TRUE,
                     message |-> "", arg |-> -1,
                     dimension |-> Len(c.embedding.data)]]

handler_except_all(c) ==
    IF Raised(c)
    THEN Raise(c, HTTPException(500, "Internal server error", -1, c.exc.detail))
    ELSE c

\* except HTTPException: raise / except Exception: raise HTTPException(500, ...)
handler_except(c) ==
    IF c.exc.type = "Exception"
    THEN Raise(c, HTTPException(500, "Internal server error", -1, c.exc.detail))
    ELSE c

\* create_embedding up to its await.
create_embedding_begin(content_type, file) ==
    handler_except(validate_file_type(Entry(content_type, file)))

create_embedding_resume_late_check(c, m) ==
    handler_except(
        Then(Then(Then(Then(Then(read_file(c),
            LAMBDA x : check_empty(x, "Empty audio file")),
            preprocess_audio),
            LAMBDA x : generate_embedding(x, m)),
            check_duration),
            return_response))

\* create_embedding from the await on.
create_embedding_resume(c, m) ==
    handler_except(
        Then(Then(Then(Then(Then(read_file(c),
            LAMBDA x : check_empty(x, "Empty audio file")),
            preprocess_audio),
            check_duration),
            LAMBDA x : generate_embedding(x, m)),
            return_response))

create_embedding_raw(audio_data, m) ==
    handler_except(
        Then(Then(Then(Then(check_empty(Entry(NoContentType, audio_data), "Empty audio data"),
            preprocess_audio),
            check_duration_raw),
            LAMBDA x : generate_embedding(x, m)),
            return_raw))

\* What the application sends for a finished handler: the returned body with
\* 200, or the HTTPException's status and detail.  Status 0: nothing was sent
\* by the application, the exception escaped the handler.
to_response(c) ==
    [status |-> IF c.exc.type = "none" THEN 200
                ELSE IF c.exc.type = "HTTPException" THEN c.exc.status ELSE 0,
     detail |-> c.exc.detail, arg |-> c.exc.arg, cause |-> c.exc.cause,
     body |-> c.ret, health |-> "", model_loaded |-> FALSE]

health_check_attempted(m) ==
    [status |-> 200, detail |-> "Voice embedding service is running", arg |-> -1,
     cause |-> "", body |-> NoBody, health |-> "healthy",
     model_loaded |-> startup # "pending"]

health_check(m) ==
    [status |-> 200, detail |-> "Voice embedding service is running", arg |-> -1,
     cause |-> "", body |-> NoBody, health |-> "healthy", model_loaded |-> m # None]

Answered(endpoint, c, resp) ==
    [endpoint |-> endpoint, content_type |-> c.content_type, file |-> c.file,
     trace |-> c.trace, waveform |-> c.waveform, resp |-> resp]

NoRequest ==
    [endpoint |-> "none", content_type |-> NoContentType, file |-> NotAudio("", 0),
     trace |-> <<>>, waveform |-> NoWaveform,
     resp |-> [status |-> 0, detail |-> "", arg |-> -1, cause |-> "", body |-> NoBody,
               health |-> "", model_loaded |-> FALSE]]

----------------------------------------------------------------------------
(* The service.                                                            *)

Init ==
    /\ model = None
    /\ startup = "pending"
    /\ reading = EmptyBag
    /\ done = NoRequest
    /\ raw = <<>>
    /\ normalized = <<>>

\* startup_event: load_model() binds the global.
LoadModel ==
    /\ startup = "pending"
    /\ \E checkpoint \in Checkpoints : model' = checkpoint
    /\ startup' = "complete"
    /\ UNCHANGED <<reading, done, raw, normalized>>

\* startup_event: from_hparams raises, load_model re-raises, model stays None.
LoadModelFails ==
    /\ startup = "pending"
    /\ startup' = "failed"
    /\ UNCHANGED <<model, reading, done, raw, normalized>>

HealthCheck ==
    /\ done' = Answered("health", Entry(NoContentType, NotAudio("", 0)), health_check(model))
    /\ UNCHANGED <<model, startup, reading, raw, normalized>>

\* POST /embed arrives: the handler runs to its await, or answers at once.
CreateEmbeddingBegin ==
    \E content_type \in ContentTypes, file \in Payloads :
        LET c == create_embedding_begin(content_type, file)
        IN  /\ IF Raised(c)
               THEN /\ done' = Answered("embed", c, to_response(c))
                    /\ UNCHANGED reading
               ELSE /\ BagCardinality(reading) < MaxInFlight
                    /\ reading' = reading (+) SetToBag({c})
                    /\ UNCHANGED done
            /\ UNCHANGED <<model, startup, raw, normalized>>

CreateEmbeddingResumeUnloads ==
    \E c \in BagToSet(reading) :
        LET c2 == create_embedding_resume(c, model)
        IN  /\ reading' = reading (-) SetToBag({c})
            /\ done' = Answered("embed", c2, to_response(c2))
            /\ model' = IF Raised(c2) THEN None ELSE model
            /\ UNCHANGED <<startup, raw, normalized>>

\* file.read() completes: the handler runs to its end.
CreateEmbeddingResume ==
    \E c \in BagToSet(reading) :
        LET c2 == create_embedding_resume(c, model)
        IN  /\ reading' = reading (-) SetToBag({c})
            /\ done' = Answered("embed", c2, to_response(c2))
            /\ UNCHANGED <<model, startup, raw, normalized>>

\* POST /embed-raw: no await, the handler runs to its end.
CreateEmbeddingRaw ==
    \E audio_data \in Payloads :
        LET c == create_embedding_raw(audio_data, model)
        IN  /\ done' = Answered("embed_raw", c, to_response(c))
            /\ UNCHANGED <<model, startup, reading, raw, normalized>>

Next ==
    \/ LoadModel
    \/ LoadModelFails
    \/ HealthCheck
    \/ CreateEmbeddingBegin
    \/ CreateEmbeddingResume
    \/ CreateEmbeddingRaw

Spec == Init /\ [][Next]_vars

----------------------------------------------------------------------------
(* The normalization alone, over a grid of raw vectors.                    *)

RawComponents == {0, 1, 30000, 3000000, 300000000, -400000000}

InitNorm ==
    /\ model = None
    /\ startup = "pending"
    /\ reading = EmptyBag
    /\ done = NoRequest
    /\ raw \in [1..3 -> RawComponents]
    /\ normalized = <<>>

Normalize ==
    /\ normalized = <<>>
    /\ normalized' = l2_normalize(raw)
    /\ UNCHANGED <<model, startup, reading, done, raw>>

NextNorm == Normalize

SpecNorm == InitNorm /\ [][NextNorm]_vars

----------------------------------------------------------------------------
(* C9: the norm of the returned embedding.                                 *)

\* 1e-5, in units of 2^-24.
TOL == ONE \div 100000

\* 0.01, in units of 1e-8.
NormFloor == 10^6

\* | ||e|| - 1 | < 1e-5, compared on the squares.
WithinTol(e) ==
    LET s == SumSq(e)
    IN  BigLess(Sq(ONE - TOL), s) /\ BigLess(s, Sq(ONE + TOL))

SameSigns(v, e) ==
    \A i \in 1..Len(v) :
        /\ (v[i] > 0 => e[i] >= 0)
        /\ (v[i] < 0 => e[i] <= 0)
        /\ (v[i] = 0 => e[i] = 0)

----------------------------------------------------------------------------
(* The claims about the service.  They read the inputs of the answered     *)
(* request off the tables below rather than off the handlers' own tests.   *)

Embeds == {"embed", "embed_raw"}

\* The content types of ContentTypes that begin with "audio/".
AudioContentTypes == {"audio/wav"}

BeginsWithAudio(ct) == ct.present /\ ct.value \in AudioContentTypes

\* The payloads that decode to at least 8000 samples at 16 kHz, and those
\* that decode to fewer (but at least one).
LongClips == {"clip_8000", "silence_1s"}

ShortClips == {"clip_0.2s", "clip_7999", "stereo_short"}

EmptyDetails == {"Empty audio file", "Empty audio data"}

InvalidContentTypeDetail == "File must be an audio file (WAV preferred)"

\* The request passes every check a handler makes before it needs the model.
PassesInputChecks(d) ==
    /\ d.endpoint = "embed" => BeginsWithAudio(d.content_type)
    /\ d.file.content \in LongClips

Last(q) == q[Len(q)]

IsPrefix(p, q) == Len(p) <= Len(q) /\ SubSeq(q, 1, Len(p)) = p

InTrace(stage, d) == \E i \in 1..Len(d.trace) : d.trace[i] = stage

\* C1 as stated: while the model is not loaded, every embed request fails
\* with model-not-ready, status 500, whatever its payload.
C1_NotReadyWhateverPayload ==
    (model = None /\ done.endpoint \in Embeds) =>
        /\ done.resp.status = 500
        /\ done.resp.cause = "Model not loaded"

\* C1 amended: while the model is not loaded, a request that passes the
\* input checks (audio content type on /embed, a payload that decodes to at
\* least 8000 samples) is answered 500, the failure of generate_embedding
\* that wraps "Model not loaded", without the network being invoked and
\* without waiting for the load; any other request is answered 400 by the
\* input check it fails.
C1_NotReadyAfterInputChecks ==
    (model = None /\ done.endpoint \in Embeds) =>
        IF PassesInputChecks(done)
        THEN /\ done.resp.status = 500
             /\ done.resp.detail = "Embedding generation failed"
             /\ done.resp.cause = "Model not loaded"
             /\ ~InTrace("encode_batch", done)
        ELSE done.resp.status = 400

C1_Witness ==
    /\ model = None
    /\ startup = "pending"
    /\ done.endpoint = "embed"
    /\ done.file.content = "clip_8000"
    /\ done.resp.status = 500

\* C2 as stated: /embed rejects with invalid-content-type exactly when the
\* content type is present and does not begin with "audio/"; an absent
\* content type goes on to the emptiness check.
C2_RejectedIffPresentNonAudio ==
    done.endpoint = "embed" =>
        /\ (done.resp.detail = InvalidContentTypeDetail) <=>
              (done.content_type.present /\ ~BeginsWithAudio(done.content_type))
        /\ ~done.content_type.present => InTrace("empty", done)

\* C2 amended: /embed rejects with invalid-content-type (400) exactly when
\* the content type is absent, empty or does not begin with "audio/", and it
\* does so before reading the payload.
C2_RejectedIffNotAudio ==
    done.endpoint = "embed" =>
        /\ (done.resp.detail = InvalidContentTypeDetail) <=>
              ~BeginsWithAudio(done.content_type)
        /\ done.resp.detail = InvalidContentTypeDetail =>
              done.resp.status = 400 /\ done.trace = <<"content_type">>
        /\ BeginsWithAudio(done.content_type) => InTrace("empty", done)

C2_Witness ==
    /\ done.endpoint = "embed"
    /\ ~done.content_type.present
    /\ done.resp.status = 400
    /\ done.resp.detail = InvalidContentTypeDetail

\* C3: on both endpoints a waveform of fewer than 8000 samples is answered
\* 400 with a message that reports its duration (samples / 16000, to two
\* decimals), and the network is never invoked for it.
C3_TooShortReportsDuration ==
    (done.endpoint \in Embeds /\ done.waveform.samples >= 0
        /\ done.waveform.samples < 8000) =>
        /\ done.resp.status = 400
        /\ done.resp.arg = Fmt2(done.waveform.samples)
        /\ ~InTrace("encode_batch", done)

\* C4 as stated: on both endpoints an empty payload is answered 400 with an
\* "empty" message, for any content type and any model state.
C4_EmptyAlwaysEmptyMessage ==
    (done.endpoint \in Embeds /\ done.file.size = 0) =>
        done.resp.status = 400 /\ done.resp.detail \in EmptyDetails

\* C4 amended: an empty payload is answered 400 in any model state; the
\* message says the input is empty on /embed-raw and on /embed with a
\* content type that begins with "audio/", and is the invalid-content-type
\* message on /embed otherwise.
C4_EmptyRejected ==
    (done.endpoint \in Embeds /\ done.file.size = 0) =>
        /\ done.resp.status = 400
        /\ ~InTrace("preprocess", done)
        /\ IF done.endpoint = "embed" /\ ~BeginsWithAudio(done.content_type)
           THEN done.resp.detail = InvalidContentTypeDetail
           ELSE done.resp.detail \in EmptyDetails

C4_Witness ==
    /\ done.endpoint = "embed"
    /\ BeginsWithAudio(done.content_type)
    /\ done.file.size = 0
    /\ model # None
    /\ done.resp.status = 400
    /\ done.resp.detail = "Empty audio file"

\* C5: GET /health always answers 200 and changes nothing; it reports
\* model_loaded = TRUE exactly when load_model has completed, and a loaded
\* model is never unloaded, so a report of TRUE is never followed by FALSE.
C5_HealthFollowsLoad ==
    [][ /\ (done'.endpoint = "health" /\ done' # done) =>
              /\ done'.resp.status = 200
              /\ done'.resp.model_loaded = (startup = "complete")
              /\ UNCHANGED <<model, startup, reading>>
        /\ (startup = "complete" /\ model # None) =>
              (startup' = "complete" /\ model' = model)
        /\ (startup' = "complete") = (model' # None) ]_vars

C5_Witness ==
    /\ done.endpoint = "health"
    /\ done.resp.status = 200
    /\ done.resp.model_loaded
    /\ startup = "complete"

\* The status the taxonomy gives to a failure at a stage.
TaxonomyStatus(stage) ==
    IF stage \in {"content_type", "empty", "preprocess", "length"} THEN 400 ELSE 500

\* C6: every answered embed request carries one response from the
\* application (no failure escapes), with the status of the taxonomy:
\* 400 for invalid content type, empty input, decode failure and too-short
\* input, 500 for model not ready, inference failure and any other failure,
\* 200 on success; the status the failing stage chose is the one sent.
C6_StatusByFailureKind ==
    done.endpoint \in Embeds =>
        /\ done.resp.status \in {200, 400, 500}
        /\ done.trace # <<>>
        /\ IF done.resp.body.success
           THEN done.resp.status = 200 /\ Last(done.trace) = "return"
           ELSE done.resp.status = TaxonomyStatus(Last(done.trace))
        /\ done.resp.detail = "Audio preprocessing failed" <=>
              (Last(done.trace) = "preprocess"
                 /\ done.file.content \in {"junk", "header_only"})
        /\ done.resp.detail = "Embedding generation failed" =>
              /\ done.resp.status = 500
              /\ done.resp.cause \in {"Model not loaded", "encode_batch"}
        /\ done.resp.detail = "Internal server error" =>
              done.resp.status = 500 /\ Last(done.trace) = "return"

C6_Witness ==
    /\ done.endpoint \in Embeds
    /\ done.resp.status = 500
    /\ done.resp.detail = "Embedding generation failed"
    /\ done.resp.cause = "encode_batch"

\* The failure kind of a response, up to the wording of the two endpoints.
FailureKind(resp) ==
    IF resp.detail \in EmptyDetails THEN "empty"
    ELSE IF resp.detail \in {"Audio too short. Minimum 0.5 seconds required, got",
                             "Audio too short. Minimum 0.5 seconds required"}
         THEN "too_short"
         ELSE resp.detail

\* What the claim compares: status, failure kind and embedding.
Outcome(resp) ==
    [status |-> resp.status, kind |-> FailureKind(resp), cause |-> resp.cause,
     embedding |-> resp.body.embedding, success |-> resp.body.success]

SameOutcome(r1, r2) == Outcome(r1) = Outcome(r2)

\* A step in which a suspended /embed handler answers.
EmbedAnswers ==
    /\ reading' # reading
    /\ done'.endpoint = "embed"
    /\ BagCardinality(reading') < BagCardinality(reading)

\* A step in which /embed-raw answers.
RawAnswers == done'.endpoint = "embed_raw" /\ done' # done

\* C7: for the same payload and the same model state, /embed with a content
\* type that begins with "audio/" and /embed-raw end with the same status for
\* the same failure kind, and on success return the same embedding.
C7_EntryPointsAgree ==
    [][ /\ EmbedAnswers =>
              \A c \in {create_embedding_raw(done'.file, model)} :
                  SameOutcome(done'.resp, to_response(c))
        /\ RawAnswers =>
              \A b \in {create_embedding_begin(ContentType("audio/wav"), done'.file)} :
                  \A c \in {create_embedding_resume(b, model)} :
                      SameOutcome(done'.resp, to_response(c)) ]_vars

C7_Witness ==
    /\ done.endpoint = "embed"
    /\ done.resp.status = 200
    /\ done.resp.body.embedding = <<10066329, -13421772, 0>>

\* A request run alone: from arrival to its response with nothing between.
Alone(endpoint, content_type, file, m) ==
    IF endpoint = "embed_raw" THEN create_embedding_raw(file, m)
    ELSE LET c == create_embedding_begin(content_type, file)
         IN  IF Raised(c) THEN c ELSE create_embedding_resume(c, m)

\* C8: no handler writes state shared between requests (the model handle,
\* the startup state, the other suspended requests), and once the model is
\* loaded every response is the one the request gets when it runs alone.
C8_RequestsIndependent ==
    [][ /\ (done' # done \/ reading' # reading) =>
              /\ model' = model /\ startup' = startup
              /\ \/ reading' = reading
                 \/ \E c \in BagToSet(reading) : reading' = reading (-) SetToBag({c})
                 \/ \E c \in BagToSet(reading') : reading = reading' (-) SetToBag({c})
        /\ (model # None /\ done' # done /\ done'.endpoint \in Embeds) =>
              \A c \in {Alone(done'.endpoint, done'.content_type, done'.file, model)} :
                  done'.resp = to_response(c) /\ done'.trace = c.trace
        /\ (model # None /\ done' # done /\ done'.endpoint = "health") =>
              done'.resp = health_check(model) ]_vars

C8_Witness ==
    /\ model # None
    /\ BagCardinality(reading) = 2
    /\ done.endpoint = "embed"
    /\ done.resp.status = 200

EmbedOrder ==
    <<"content_type", "read", "empty", "preprocess", "length", "model_check",
      "encode_batch", "normalize", "return">>

RawOrder ==
    <<"empty", "preprocess", "length", "model_check", "encode_batch", "normalize",
      "return">>

\* C10: the stages of a request run in one fixed order, each at most once;
\* a failure ends the request at the failing stage; a non-audio content type
\* is rejected before anything is read or decoded; the network is invoked
\* only on a waveform of at least 8000 samples; and 200 is answered only
\* after every stage has run with the model loaded.
C10_StagesInOrder ==
    done.endpoint \in Embeds =>
        /\ IsPrefix(done.trace, IF done.endpoint = "embed" THEN EmbedOrder ELSE RawOrder)
        /\ (done.endpoint = "embed" /\ ~BeginsWithAudio(done.content_type)) =>
              done.trace = <<"content_type">>
        /\ done.file.size = 0 => ~InTrace("preprocess", done)
        /\ done.file.content \in {"junk", "header_only"} => ~InTrace("length", done)
        /\ done.file.content \in ShortClips => ~InTrace("model_check", done)
        /\ InTrace("encode_batch", done) =>
              done.waveform.samples >= 8000 /\ done.file.content \in LongClips
        /\ done.resp.status = 200 <=>
              (done.trace = (IF done.endpoint = "embed" THEN EmbedOrder ELSE RawOrder)
                 /\ done.resp.body.success)
        /\ done.resp.status = 200 => model # None
        /\ done.resp.status # 200 => done.resp.body.embedding = <<>>

C10_Witness ==
    /\ done.endpoint = "embed"
    /\ done.resp.status = 200
    /\ done.trace = EmbedOrder

====
